---- MODULE Spec2Model ----
(***************************************************************************)
(* A model of main.py: the Streamlit page that connects to AWS ECR, lists  *)
(* the repositories, and on "Push to ECR" logs docker in, tags the local   *)
(* image and pushes it while streaming the push output to the page.        *)
(*                                                                         *)
(* Text is modelled as a sequence of one-character strings, so that        *)
(* strip(), split(':'), the f-strings and "logs += line" are computed and  *)
(* not assumed.                                                            *)
(***************************************************************************)
EXTENDS Integers, Sequences, FiniteSets, TLC

VARIABLES
    aws_region,       \* st.text_input("AWS Region")
    aws_account_id,   \* st.text_input("AWS Account ID")
    ecr_client,       \* st.session_state.ecr_client
    repos,            \* st.session_state.repos
    served,           \* the pages the paginator yielded in this script run
    connect_account,  \* history: the account id typed in when the client was created
    pc,               \* position of the script run
    form,             \* locals of the "Push to ECR" handler
    messages,         \* st.info / st.success / st.warning / st.error / st.code of this run
    decoded_token,    \* ecr_login: decoded_token
    login_success,    \* handler: login_success
    cmds,             \* docker subprocesses started in this run, in order
    completed,        \* outcomes of the subprocess.run calls of this run, in order
    process,          \* the docker push child: what it wrote, whether it exited, its code
    logs,             \* tag_and_push_image: logs
    log_container,    \* tag_and_push_image: what log_container shows
    returncode,       \* process.returncode
    pushState,        \* NotStarted, Streaming, Succeeded, Failed
    result            \* value returned by tag_and_push_image

vars == <<aws_region, aws_account_id, ecr_client, repos, served, connect_account,
          pc, form, messages, decoded_token, login_success, cmds, completed,
          process, logs, log_container, returncode, pushState, result>>

session == <<ecr_client, repos, connect_account>>
inputs == <<aws_region, aws_account_id>>

(***************************************************************************)
(* Bounds of the model.                                                    *)
(***************************************************************************)
MaxPages == 2      \* pages a describe_repositories listing may have
MaxOut == 4        \* characters the docker push child may write
MaxExit == 2       \* largest exit code a docker subprocess returns

ExitCodes == 0..MaxExit

(***************************************************************************)
(* Text.                                                                   *)
(***************************************************************************)
Whitespace == {" ", "\n", "\t"}

RECURSIVE lstrip(_)
lstrip(s) == IF s # <<>> /\ Head(s) \in Whitespace THEN lstrip(Tail(s)) ELSE s

RECURSIVE rstrip(_)
rstrip(s) ==
    IF s # <<>> /\ s[Len(s)] \in Whitespace THEN rstrip(SubSeq(s, 1, Len(s) - 1)) ELSE s

strip(s) == rstrip(lstrip(s))

\* The index of the first sep in s, or 0.
RECURSIVE find(_, _, _)
find(s, sep, i) ==
    IF i > Len(s) THEN 0 ELSE IF s[i] = sep THEN i ELSE find(s, sep, i + 1)

\* str.split(sep): every occurrence of sep separates two fields.
RECURSIVE split(_, _)
split(s, sep) ==
    LET i == find(s, sep, 1) IN
    IF i = 0 THEN <<s>>
    ELSE <<SubSeq(s, 1, i - 1)>> \o split(SubSeq(s, i + 1, Len(s)), sep)

Base64Alphabet ==
    <<"A","B","C","D","E","F","G","H","I","J","K","L","M","N","O","P",
      "Q","R","S","T","U","V","W","X","Y","Z","a","b","c","d","e","f",
      "g","h","i","j","k","l","m","n","o","p","q","r","s","t","u","v",
      "w","x","y","z","0","1","2","3","4","5","6","7","8","9","+","/">>

Base64Value(c) == (CHOOSE i \in 1..Len(Base64Alphabet) : Base64Alphabet[i] = c) - 1

\* The characters of code points 32..126 (34, 92 and 96 by name).
Ascii ==
    <<" ","!","QUOTE","#","$","%","&","'","(",")","*","+",",","-",".","/",
      "0","1","2","3","4","5","6","7","8","9",":",";","<","=",">","?",
      "@","A","B","C","D","E","F","G","H","I","J","K","L","M","N","O",
      "P","Q","R","S","T","U","V","W","X","Y","Z","[","BACKSLASH","]","^","_",
      "BACKQUOTE","a","b","c","d","e","f","g","h","i","j","k","l","m","n","o",
      "p","q","r","s","t","u","v","w","x","y","z","{","|","}","~">>

chr(n) == Ascii[n - 31]

\* base64.b64decode(token).decode(utf-8) of a token of ASCII text.
RECURSIVE b64decode(_)
b64decode(t) ==
    IF Len(t) < 4 THEN <<>>
    ELSE LET v1 == Base64Value(t[1])
             v2 == Base64Value(t[2])
             b1 == chr(v1 * 4 + (v2 \div 16))
             rest == b64decode(SubSeq(t, 5, Len(t)))
         IN  IF t[3] = "=" THEN <<b1>>
             ELSE LET v3 == Base64Value(t[3])
                      b2 == chr((v2 % 16) * 16 + (v3 \div 4))
                  IN  IF t[4] = "=" THEN <<b1, b2>>
                      ELSE <<b1, b2, chr((v3 % 4) * 64 + Base64Value(t[4]))>> \o rest

(***************************************************************************)
(* What the user can type and what AWS and docker can answer.              *)
(***************************************************************************)
Account1 == <<"1","2","3","4","5","6","7","8","9","0","1","2">>
UsEast1 == <<"u","s","-","e","a","s","t","-","1">>
MyApp == <<"m","y","-","a","p","p">>
Api == <<"a","p","i">>
Latest == <<"l","a","t","e","s","t">>

RegionInputs == {<<>>, UsEast1, <<" ","e","u"," ">>}
AccountInputs == {<<>>, Account1, <<" ","7">>}
ImageInputs == {<<>>, MyApp \o <<":">> \o Latest}
TagInputs == {<<>>, Latest, <<" ","v","1"," ">>}

\* authorizationToken values: base64 of AWS:pw, of AWS:p:w and of AWSpw.
Tokens ==
    { <<"Q","V","d","T","O","n","B","3">>,
      <<"Q","V","d","T","O","n","A","6","d","w","=","=">>,
      <<"Q","V","d","T","c","H","c","=">> }

\* One page of a describe_repositories answer.
Pages == {<<>>, <<MyApp>>, <<Api>>, <<Api, MyApp>>}

\* The answers of at most n pages.
Listings(n) == UNION {[1..k -> Pages] : k \in 0..n}

\* The answers the full program is explored with.
ShortListings == {<<>>, <<<<MyApp>>, <<>>, <<Api>>>>}

OutputChars == {"a", "\n"}

Range(f) == {f[i] : i \in DOMAIN f}

(***************************************************************************)
(* Values of the session and of one script run.                            *)
(***************************************************************************)
Absent == [kind |-> "absent", region |-> <<>>]
NoneClient == [kind |-> "None", region |-> <<>>]
Client(region_name) == [kind |-> "client", region |-> region_name]

AbsentRepos == [kind |-> "absent", names |-> <<>>]
NoneRepos == [kind |-> "None", names |-> <<>>]
ReposList(names) == [kind |-> "list", names |-> names]

NoForm ==
    [selected_repo |-> <<>>, local_image |-> <<>>, new_image_tag |-> <<>>,
     account_id |-> <<>>, region |-> <<>>, ecr_image_uri |-> <<>>]
NoToken == [set |-> FALSE, text |-> <<>>]
NoProcess == [out |-> <<>>, read |-> 0, exited |-> FALSE, code |-> 0]
NoReturncode == [set |-> FALSE, value |-> 0]

Msg(kind, text) == [kind |-> kind, text |-> text, detail |-> ""]
MsgOf(kind, text, detail) == [kind |-> kind, text |-> text, detail |-> detail]

\* stderr of a docker subprocess that exited with rc.
Stderr(cmd, rc) ==
    IF rc = 0 THEN ""
    ELSE IF cmd = "login" THEN "no basic auth credentials" ELSE "image not found"

(***************************************************************************)
(* The helper functions.                                                   *)
(***************************************************************************)
\* boto3.client either returns a client of the region or raises.
get_ecr_client(region_name, raises) ==
    IF raises THEN NoneClient ELSE Client(region_name)

\* for repo in page['repositories']: repositories.append(repo['repositoryName'])
RECURSIVE append_page(_, _)
append_page(repositories, page) ==
    IF page = <<>> THEN repositories
    ELSE append_page(Append(repositories, Head(page)), Tail(page))

\* A listing that reads the first page only.
paginate_first_page(repositories, pages) ==
    IF pages = <<>> THEN repositories ELSE append_page(repositories, Head(pages))

\* for page in paginator.paginate(): ...
RECURSIVE paginate(_, _)
paginate(repositories, pages) ==
    IF pages = <<>> THEN repositories
    ELSE paginate(append_page(repositories, Head(pages)), Tail(pages))

get_ecr_repositories(pages, raises) ==
    IF raises THEN NoneRepos ELSE ReposList(paginate(<<>>, pages))

\* registry = f"{aws_account_id}.dkr.ecr.{region}.amazonaws.com"
Registry(account, region) ==
    account \o <<".","d","k","r",".","e","c","r",".">> \o region
            \o <<".","a","m","a","z","o","n","a","w","s",".","c","o","m">>

\* repository_uri = f"{account_id}.dkr.ecr.{region}.amazonaws.com/{selected_repo}"
RepositoryUri(account, region, repo) ==
    account \o <<".","d","k","r",".","e","c","r",".">> \o region
            \o <<".","a","m","a","z","o","n","a","w","s",".","c","o","m","/">> \o repo

\* A reference that leaves the tag out.
ImageUriUntagged(repository_uri, image_tag) == repository_uri

\* ecr_image_uri = f"{repository_uri}:{image_tag}"
ImageUri(repository_uri, image_tag) == repository_uri \o <<":">> \o image_tag

\* subprocess.run without check=True, the exit code not looked at.
LoginUnchecked(rc) == TRUE
TagUnchecked(rc) == TRUE

\* subprocess.run(..., check=True) raises CalledProcessError on a non-zero exit.
LoginSucceeded(rc) == rc = 0
TagSucceeded(rc) == rc = 0

\* A failed push that is never marked finished.
PushLeftStreaming(rc) == IF rc = 0 THEN "Succeeded" ELSE "Streaming"

\* if process.returncode == 0: ... return True / else: ... return False
PushSucceeded(rc) == rc = 0
PushResult(rc) == IF PushSucceeded(rc) THEN "True" ELSE "False"
PushTerminalState(rc) == IF PushSucceeded(rc) THEN "Succeeded" ELSE "Failed"

\* A read that does not wait for the child: it returns '' when nothing is there yet.
ReadableAtOnce(buf, eof) == TRUE

\* process.stdout.readline() returns once a whole line or the end of file is there.
Readable(buf, eof) == find(buf, "\n", 1) # 0 \/ eof
readline(buf) ==
    LET i == find(buf, "\n", 1) IN IF i # 0 THEN SubSeq(buf, 1, i) ELSE buf

\* logs = line + logs
AddLineInFront(text, line) == line \o text

\* logs += line
AddLine(text, line) == text \o line

\* The repository section, rendered on every run of the script.
SectionMessages(r) ==
    IF r.kind = "list" /\ r.names = <<>>
    THEN <<Msg("warning", "No ECR repositories found in this region.")>>
    ELSE <<>>

(***************************************************************************)
(* The state after the page is first loaded.                               *)
(***************************************************************************)
\* Every run of the script starts with fresh locals and an empty page.
FreshRun(f, msgs) ==
    /\ form' = f
    /\ messages' = msgs
    /\ decoded_token' = NoToken
    /\ login_success' = "None"
    /\ cmds' = <<>>
    /\ completed' = <<>>
    /\ process' = NoProcess
    /\ logs' = <<>>
    /\ log_container' = <<>>
    /\ returncode' = NoReturncode
    /\ pushState' = "NotStarted"
    /\ result' = "None"

Init ==
    /\ aws_region = <<>>
    /\ aws_account_id = <<>>
    /\ ecr_client = Absent
    /\ repos = AbsentRepos
    /\ served = <<>>
    /\ connect_account = <<>>
    /\ pc = "idle"
    /\ form = NoForm
    /\ messages = <<>>
    /\ decoded_token = NoToken
    /\ login_success = "None"
    /\ cmds = <<>>
    /\ completed = <<>>
    /\ process = NoProcess
    /\ logs = <<>>
    /\ log_container = <<>>
    /\ returncode = NoReturncode
    /\ pushState = "NotStarted"
    /\ result = "None"

(***************************************************************************)
(* Section 1: the inputs and "Connect to AWS".                             *)
(***************************************************************************)
\* Typing into a text input reruns the script with no button pressed.
EditRegion(r) ==
    /\ pc = "idle"
    /\ r # aws_region
    /\ aws_region' = r
    /\ served' = <<>>
    /\ FreshRun(NoForm, SectionMessages(repos))
    /\ UNCHANGED <<aws_account_id, session, pc>>

EditAccount(a) ==
    /\ pc = "idle"
    /\ a # aws_account_id
    /\ aws_account_id' = a
    /\ served' = <<>>
    /\ FreshRun(NoForm, SectionMessages(repos))
    /\ UNCHANGED <<aws_region, session, pc>>

\* if st.button("Connect to AWS"), the listing drawn from the answers L.
ConnectWith(L) ==
    /\ pc = "idle"
    /\ UNCHANGED <<inputs, pc>>
    /\ LET region == strip(aws_region) IN
       IF region # <<>> /\ strip(aws_account_id) # <<>>
       THEN \E raises \in BOOLEAN :
              LET client == get_ecr_client(region, raises) IN
              /\ ecr_client' = client
              /\ IF client.kind = "client"
                 THEN \E pages \in L, fails \in BOOLEAN :
                        LET fetched == get_ecr_repositories(pages, fails) IN
                        /\ repos' = fetched
                        /\ served' = IF fails THEN <<>> ELSE pages
                        /\ connect_account' = strip(aws_account_id)
                        /\ FreshRun(NoForm,
                             (IF fetched.kind = "list"
                              THEN <<Msg("success",
                                     "Successfully connected to AWS and fetched repositories.")>>
                              ELSE <<Msg("error", "Error fetching ECR repositories")>>)
                             \o SectionMessages(fetched))
                 ELSE /\ UNCHANGED <<repos, connect_account>>
                      /\ served' = <<>>
                      /\ FreshRun(NoForm,
                           <<Msg("error", "Error creating ECR client")>>
                           \o SectionMessages(repos))
       ELSE /\ UNCHANGED session
            /\ served' = <<>>
            /\ FreshRun(NoForm,
                 <<Msg("warning", "Please provide your AWS Region and Account ID.")>>
                 \o SectionMessages(repos))

Connect == ConnectWith(ShortListings)

ConnectAnyListing == ConnectWith(Listings(MaxPages))

(***************************************************************************)
(* Section 2: "Push to ECR".                                               *)
(***************************************************************************)
\* if st.button("Push to ECR"): if all([...]): ... else: st.warning(...)
PushClick(sel, img, tag) ==
    /\ pc = "idle"
    /\ repos.kind = "list"
    /\ repos.names # <<>>
    /\ sel \in Range(repos.names)
    /\ served' = <<>>
    /\ UNCHANGED <<inputs, session>>
    /\ LET account_id == strip(aws_account_id)
           region == strip(aws_region)
       IN  IF sel # <<>> /\ img # <<>> /\ tag # <<>> /\ account_id # <<>>
           THEN /\ pc' = "login"
                /\ FreshRun([selected_repo |-> sel, local_image |-> img,
                             new_image_tag |-> tag, account_id |-> account_id,
                             region |-> region, ecr_image_uri |-> <<>>],
                            SectionMessages(repos))
           ELSE /\ pc' = "idle"
                /\ FreshRun(NoForm,
                     SectionMessages(repos)
                     \o <<Msg("warning",
                           "Please fill in all the repository and image details.")>>)

LoginFailed(why) ==
    /\ login_success' = "False"
    /\ messages' = messages
         \o <<Msg("info", "Authenticating Docker with ECR..."),
              MsgOf("error", "An error occurred during ECR login", why)>>
    /\ pc' = "idle"
    /\ UNCHANGED <<cmds, completed>>

\* ecr_login(st.session_state.ecr_client, account_id, region)
EcrLogin ==
    /\ pc = "login"
    /\ UNCHANGED <<inputs, session, served, form, process, logs, log_container,
                   returncode, pushState, result>>
    /\ IF ecr_client.kind # "client"
       THEN \* None has no get_authorization_token
            /\ decoded_token' = NoToken
            /\ LoginFailed("AttributeError")
       ELSE \/ \* get_authorization_token raises
               /\ decoded_token' = NoToken
               /\ LoginFailed("ClientError")
            \/ \E token \in Tokens :
                 LET decoded == b64decode(token)
                     parts == split(decoded, ":")
                 IN  /\ decoded_token' = [set |-> TRUE, text |-> decoded]
                     /\ IF Len(parts) # 2
                        THEN \* username, password = ... cannot unpack
                             LoginFailed("ValueError")
                        ELSE \E rc \in ExitCodes :
                               /\ cmds' = Append(cmds,
                                    [cmd |-> "login",
                                     argv |-> <<parts[1], parts[2],
                                                Registry(form.account_id, form.region)>>])
                               /\ completed' = Append(completed,
                                    [rc |-> rc, stderr |-> Stderr("login", rc)])
                               /\ IF LoginSucceeded(rc)
                                  THEN /\ login_success' = "True"
                                       /\ messages' = messages
                                            \o <<Msg("info", "Authenticating Docker with ECR..."),
                                                 Msg("success", "Docker login successful!")>>
                                       /\ pc' = "tag"
                                  ELSE /\ login_success' = "False"
                                       /\ messages' = messages
                                            \o <<Msg("info", "Authenticating Docker with ECR..."),
                                                 Msg("error", "Docker login failed."),
                                                 Msg("code", Stderr("login", rc))>>
                                       /\ pc' = "idle"

\* tag_and_push_image, up to the end of the tagging try block
TagImage ==
    /\ pc = "tag"
    /\ UNCHANGED <<inputs, session, served, decoded_token, login_success, process,
                   logs, log_container, returncode, pushState>>
    /\ LET repository_uri ==
               RepositoryUri(form.account_id, form.region, form.selected_repo)
           ecr_image_uri == ImageUri(repository_uri, strip(form.new_image_tag))
       IN  /\ form' = [form EXCEPT !.ecr_image_uri = ecr_image_uri]
           /\ \E rc \in ExitCodes :
                /\ cmds' = Append(cmds,
                     [cmd |-> "tag",
                      argv |-> <<strip(form.local_image), ecr_image_uri>>])
                /\ completed' = Append(completed,
                     [rc |-> rc, stderr |-> Stderr("tag", rc)])
                /\ IF TagSucceeded(rc)
                   THEN /\ messages' = messages
                             \o <<Msg("info", "Tagging local image"),
                                  Msg("success", "Image tagged successfully.")>>
                        /\ result' = result
                        /\ pc' = "spawn"
                   ELSE /\ messages' = messages
                             \o <<Msg("info", "Tagging local image"),
                                  Msg("error", "Failed to tag Docker image."),
                                  Msg("code", Stderr("tag", rc))>>
                        /\ result' = "False"
                        /\ pc' = "idle"

\* process = subprocess.Popen(push_command, ...); log_container = st.empty(); logs = ""
SpawnPush ==
    /\ pc = "spawn"
    /\ messages' = Append(messages, Msg("info", "Pushing image to ECR repository"))
    /\ cmds' = Append(cmds, [cmd |-> "push", argv |-> <<form.ecr_image_uri>>])
    /\ process' = NoProcess
    /\ logs' = <<>>
    /\ log_container' = <<>>
    /\ pushState' = "Streaming"
    /\ pc' = "drain"
    /\ UNCHANGED <<inputs, session, served, form, decoded_token, login_success,
                   completed, returncode, result>>

\* The docker push child writes one more character to its stdout/stderr pipe.
ProcWrite(c) ==
    /\ pushState = "Streaming"
    /\ ~process.exited
    /\ Len(process.out) < MaxOut
    /\ process' = [process EXCEPT !.out = Append(@, c)]
    /\ UNCHANGED <<inputs, session, served, pc, form, messages, decoded_token,
                   login_success, cmds, completed, logs, log_container, returncode,
                   pushState, result>>

\* The docker push child closes the pipe and exits.
ProcExit(code) ==
    /\ pushState = "Streaming"
    /\ ~process.exited
    /\ process' = [process EXCEPT !.exited = TRUE, !.code = code]
    /\ UNCHANGED <<inputs, session, served, pc, form, messages, decoded_token,
                   login_success, cmds, completed, logs, log_container, returncode,
                   pushState, result>>

\* One turn of: for line in iter(process.stdout.readline, '')
ReadLine ==
    /\ pc = "drain"
    /\ LET buf == SubSeq(process.out, process.read + 1, Len(process.out)) IN
       /\ Readable(buf, process.exited)
       /\ LET line == readline(buf) IN
          IF line = <<>>
          THEN /\ pc' = "wait"
               /\ UNCHANGED <<process, logs, log_container>>
          ELSE /\ process' = [process EXCEPT !.read = @ + Len(line)]
               /\ logs' = AddLine(logs, line)
               /\ log_container' = AddLine(logs, line)
               /\ pc' = pc
    /\ UNCHANGED <<inputs, session, served, form, messages, decoded_token,
                   login_success, cmds, completed, returncode, pushState, result>>

\* process.wait()
Wait ==
    /\ pc = "wait"
    /\ process.exited
    /\ returncode' = [set |-> TRUE, value |-> process.code]
    /\ pc' = "result"
    /\ UNCHANGED <<inputs, session, served, form, messages, decoded_token,
                   login_success, cmds, completed, process, logs, log_container,
                   pushState, result>>

\* if process.returncode == 0: ... else: ...
Finish ==
    /\ pc = "result"
    /\ messages' = Append(messages,
         IF PushSucceeded(returncode.value)
         THEN Msg("success", "Image pushed successfully to ECR!")
         ELSE Msg("error", "Failed to push image to ECR."))
    /\ result' = PushResult(returncode.value)
    /\ pushState' = PushTerminalState(returncode.value)
    /\ pc' = "idle"
    /\ UNCHANGED <<inputs, session, served, form, decoded_token, login_success,
                   cmds, completed, process, logs, log_container, returncode>>

Next ==
    \/ \E r \in RegionInputs : EditRegion(r)
    \/ \E a \in AccountInputs : EditAccount(a)
    \/ Connect
    \/ \E sel \in {MyApp, Api}, img \in ImageInputs, tag \in TagInputs :
         PushClick(sel, img, tag)
    \/ EcrLogin
    \/ TagImage
    \/ SpawnPush
    \/ \E c \in OutputChars : ProcWrite(c)
    \/ \E code \in ExitCodes : ProcExit(code)
    \/ ReadLine
    \/ Wait
    \/ Finish

Spec == Init /\ [][Next]_vars

\* The session alone, with every listing of at most MaxPages pages.
NextSession ==
    \/ \E r \in RegionInputs : EditRegion(r)
    \/ \E a \in AccountInputs : EditAccount(a)
    \/ ConnectAnyListing

SpecSession == Init /\ [][NextSession]_vars

(***************************************************************************)
(* Properties.                                                             *)
(***************************************************************************)
Terminal == {"Succeeded", "Failed"}

Shown(m) == \E i \in DOMAIN messages : messages[i] = m

\* m is on the page and n is the element right after it.
ShownThen(m, n) ==
    \E i \in DOMAIN messages :
        /\ i < Len(messages)
        /\ messages[i] = m
        /\ messages[i + 1] = n

StageOrder == <<"login", "tag", "push">>

\* C1: in one run the docker subprocesses are login, tag, push in that order,
\* each started only after every earlier one exited 0; a failed login (a
\* non-zero exit, or no usable token) is reported with its diagnostic and
\* neither tag nor push is started in that run.
C1_StagesGateEachOther ==
    /\ Len(cmds) <= Len(StageOrder)
    /\ \A i \in DOMAIN cmds : cmds[i].cmd = StageOrder[i]
    /\ \A i \in DOMAIN cmds :
         i > 1 => /\ Len(completed) >= i - 1
                  /\ completed[i - 1].rc = 0
    /\ (completed # <<>> /\ completed[1].rc # 0) =>
         /\ Len(cmds) = 1
         /\ login_success = "False"
         /\ pushState = "NotStarted"
         /\ ShownThen(Msg("error", "Docker login failed."),
                      Msg("code", completed[1].stderr))
         /\ completed[1].stderr = "no basic auth credentials"
    /\ login_success = "False" =>
         /\ Len(cmds) <= 1
         /\ pushState = "NotStarted"
         /\ pc = "idle"
         /\ cmds = <<>> =>
              \E why \in {"AttributeError", "ClientError", "ValueError"} :
                  Shown(MsgOf("error", "An error occurred during ECR login", why))

C1_LoginFailedWitness ==
    /\ completed # <<>>
    /\ completed[1].rc = 1
    /\ pc = "idle"

\* C2: when docker tag exits non-zero, no docker push is started in that run
\* and the run ends with the tag failure.
C2_TagFailureStopsBeforePush ==
    (Len(completed) = 2 /\ completed[2].rc # 0) =>
        /\ Len(cmds) = 2
        /\ cmds[2].cmd = "tag"
        /\ \A i \in DOMAIN cmds : cmds[i].cmd # "push"
        /\ process = NoProcess
        /\ pushState = "NotStarted"
        /\ pc = "idle"
        /\ result = "False"
        /\ ShownThen(Msg("error", "Failed to tag Docker image."),
                     Msg("code", completed[2].stderr))

C2_TagFailedWitness ==
    /\ Len(completed) = 2
    /\ completed[2].rc = 2
    /\ cmds[1].cmd = "login"

\* C3: a decoded token user:password whose password may contain colons is
\* split at the first colon only, and docker login is run with that pair.
C3_SplitsAtFirstColonOnly ==
    (decoded_token.set /\ find(decoded_token.text, ":", 1) # 0) =>
        LET text == decoded_token.text
            i == find(text, ":", 1)
        IN  /\ cmds # <<>>
            /\ cmds[1].cmd = "login"
            /\ cmds[1].argv[1] = SubSeq(text, 1, i - 1)
            /\ cmds[1].argv[2] = SubSeq(text, i + 1, Len(text))

\* The number of names on the pages before page p.
RECURSIVE NamesBefore(_, _)
NamesBefore(pages, p) ==
    IF p <= 1 THEN 0 ELSE NamesBefore(pages, p - 1) + Len(pages[p - 1])

ListedInThisRun ==
    Shown(Msg("success", "Successfully connected to AWS and fetched repositories."))

NoRepositoriesWarning == Msg("warning", "No ECR repositories found in this region.")

\* C4: a successful listing is the names of page 1, page 2, ... page N in the
\* order served, nothing dropped, repeated or moved; with no page or only
\* empty pages it is the empty list, which is not the failure value None and
\* gives the "no repositories" warning, not an error.
C4_ListingIsPagesInOrder ==
    /\ ListedInThisRun =>
         /\ repos.kind = "list"
         /\ Len(repos.names) = NamesBefore(served, Len(served) + 1)
         /\ \A p \in DOMAIN served : \A j \in DOMAIN served[p] :
                repos.names[NamesBefore(served, p) + j] = served[p][j]
         /\ \A i \in DOMAIN messages : messages[i].kind # "error"
         /\ (\A p \in DOMAIN served : served[p] = <<>>) =>
                /\ repos = ReposList(<<>>)
                /\ Shown(NoRepositoriesWarning)
    /\ Shown(NoRepositoriesWarning) <=> repos = ReposList(<<>>)
    /\ Shown(Msg("error", "Error fetching ECR repositories")) => repos = NoneRepos

C4_TwoPagesWitness ==
    /\ ListedInThisRun
    /\ Len(served) = MaxPages
    /\ served[1] = <<Api, MyApp>>
    /\ served[MaxPages] = <<MyApp>>

RECURSIVE EmittedLines(_)
EmittedLines(out) ==
    IF out = <<>> THEN <<>>
    ELSE IF \E i \in DOMAIN out : out[i] = "\n"
         THEN LET i == CHOOSE i \in DOMAIN out :
                          /\ out[i] = "\n"
                          /\ \A j \in 1..(i - 1) : out[j] # "\n"
              IN  <<SubSeq(out, 1, i)>> \o EmittedLines(SubSeq(out, i + 1, Len(out)))
         ELSE <<out>>

RECURSIVE Concat(_)
Concat(lines) == IF lines = <<>> THEN <<>> ELSE Head(lines) \o Concat(Tail(lines))

\* logs is the first k lines the child emitted, in order.
LogIsFirstLines(k) ==
    LET L == EmittedLines(process.out) IN
    /\ k <= Len(L)
    /\ logs = Concat(SubSeq(L, 1, k))
    /\ (k > 0 /\ L[k][Len(L[k])] # "\n") => process.exited

C6_LogShowsLinesRead ==
    /\ \E k \in 0..Len(process.out) : LogIsFirstLines(k)
    /\ log_container = logs
    /\ (pc \in {"wait", "result"} \/ pushState \in Terminal) => logs = process.out

\* A step that changes the log adds exactly the next emitted line to it,
\* unless it is a new run, which clears the page.
C6_LogGrowsByNextLine ==
    logs' # logs =>
        \/ logs' = <<>> /\ cmds' = <<>>
        \/ \E k \in 1..Len(process.out) :
              /\ logs = Concat(SubSeq(EmittedLines(process.out), 1, k - 1))
              /\ logs' = logs \o EmittedLines(process.out)[k]
              /\ log_container' = logs'

\* C6: the log shown after k reads is the first k emitted lines in emission
\* order, each shown log is a prefix of the next, and the final transcript
\* is the whole output.
C6_LinesInEmissionOrder == []C6_LogShowsLinesRead /\ [][C6_LogGrowsByNextLine]_vars

C6_TwoLinesWitness ==
    /\ pushState = "Succeeded"
    /\ logs = <<"a", "\n", "a">>

\* The Push button pressed with all fields filled after the push has ended:
\* the state stays and AlreadyConsumedError is reported.
C7_RedrainRefusedStep ==
    (pushState \in Terminal /\ pc' = "login") =>
        /\ pushState' = pushState
        /\ \E i \in DOMAIN messages' : messages'[i].text = "AlreadyConsumedError"

C7_StateMachineStep ==
    /\ pushState' # pushState =>
         \/ /\ pushState = "NotStarted"
            /\ pushState' = "Streaming"
            /\ cmds' = Append(cmds, [cmd |-> "push", argv |-> <<form.ecr_image_uri>>])
         \/ /\ pushState = "Streaming"
            /\ pushState' \in Terminal
            /\ cmds' = cmds
         \/ /\ pushState \in Terminal
            /\ pushState' = "NotStarted"
            /\ cmds' = <<>>
    /\ (pushState \in Terminal /\ pushState' = pushState) =>
         /\ process' = process
         /\ logs' = logs
         /\ returncode' = returncode
         /\ cmds' = cmds
         /\ pc' = "idle"

C8_FailedConnectLeavesNoList ==
    repos.kind = "list" => ecr_client.kind = "client"

\* C9: the remote reference is account.dkr.ecr.region.amazonaws.com/repo:tag,
\* the same for docker tag and docker push, and its host is the registry
\* given to docker login (account, region and tag as typed, trimmed).
C9_RemoteReference ==
    LET host == strip(aws_account_id)
                  \o <<".","d","k","r",".","e","c","r",".">>
                  \o strip(aws_region)
                  \o <<".","a","m","a","z","o","n","a","w","s",".","c","o","m">>
        ref == host \o <<"/">> \o form.selected_repo \o <<":">>
                  \o strip(form.new_image_tag)
    IN  /\ \A i \in DOMAIN cmds :
             /\ cmds[i].cmd = "login" => cmds[i].argv[3] = host
             /\ cmds[i].cmd = "tag" => cmds[i].argv[2] = ref
             /\ cmds[i].cmd = "push" => cmds[i].argv[1] = ref
        /\ (/\ Len(cmds) >= 2
            /\ aws_account_id = Account1
            /\ aws_region = UsEast1
            /\ form.selected_repo = MyApp
            /\ form.new_image_tag = Latest) =>
               cmds[2].argv[2] =
                 <<"1","2","3","4","5","6","7","8","9","0","1","2",
                   ".","d","k","r",".","e","c","r",".",
                   "u","s","-","e","a","s","t","-","1",
                   ".","a","m","a","z","o","n","a","w","s",".","c","o","m",
                   "/","m","y","-","a","p","p",":","l","a","t","e","s","t">>

C9_PushedWitness ==
    /\ Len(cmds) = 3
    /\ aws_account_id = <<" ","7">>
    /\ form.new_image_tag = <<" ","v","1"," ">>
    /\ pushState = "Succeeded"

\* C10: when a push run starts, the region and account it uses are those in
\* effect when the session's client was created, and the client is not None.
C10_EndpointFixedAtConnect ==
    pc # "idle" =>
        /\ ecr_client.kind = "client"
        /\ form.region = ecr_client.region
        /\ form.account_id = connect_account

====
